---- MODULE Spec2Model ----
(***************************************************************************)
(* A model of src/resume_parser.py: class ResumeParser.                    *)
(*                                                                         *)
(* A Python str is a sequence of characters, each character a one-element  *)
(* string ("a", "\n"); the few non-ASCII characters the program names are  *)
(* written by their code point ("U+2013").  Python values are tagged:      *)
(* None, a str, a list of str, a dict, or an exception that left the call. *)
(***************************************************************************)
EXTENDS Integers, Sequences, FiniteSets, TLC

VARIABLES nlp, op, arg, ents, ret

vars == <<nlp, op, arg, ents, ret>>

-----------------------------------------------------------------------------
(* Characters and strings                                                  *)

Chars(s) == [i \in 1..Len(s) |-> SubSeq(s, i, i)]

Range(f) == {f[i] : i \in DOMAIN f}

Min(S) == CHOOSE m \in S : \A n \in S : m <= n

Max(S) == 0 - Min({0 - n : n \in S})

\* Non-ASCII characters, named by code point.
EnDash == "U+2013"

ACirc == "U+00E2"

ACircUpper == "U+00C2"

Euro == "U+20AC"

LeftDQuote == "U+201C"

EAcute == "U+00E9"

ATilde == "U+00C3"

UpperLetters == Chars("ABCDEFGHIJKLMNOPQRSTUVWXYZ") \o <<ACircUpper>>

LowerLetters == Chars("abcdefghijklmnopqrstuvwxyz") \o <<ACirc>>

Digits == Range(Chars("0123456789"))

Letters == Range(Chars("ABCDEFGHIJKLMNOPQRSTUVWXYZ")) \cup Range(Chars("abcdefghijklmnopqrstuvwxyz"))

\* \s of a str pattern, and the characters str.strip() removes.
Whitespace == {" ", "\t", "\n", "\r", "\f"}

\* \w of a str pattern.
WordChars == Letters \cup Digits \cup {"_", ACirc, ACircUpper, EAcute, ATilde}

LowerOf == [i \in 1..Len(UpperLetters) |-> LowerLetters[i]]

\* str.lower() on one character.
LowerChar(c) ==
    IF \E i \in 1..Len(UpperLetters) : UpperLetters[i] = c
    THEN LowerOf[CHOOSE i \in 1..Len(UpperLetters) : UpperLetters[i] = c]
    ELSE c

UpperChar(c) ==
    IF \E i \in 1..Len(LowerLetters) : LowerLetters[i] = c
    THEN UpperLetters[CHOOSE i \in 1..Len(LowerLetters) : LowerLetters[i] = c]
    ELSE c

\* str.lower()
Lower(s) == [i \in 1..Len(s) |-> LowerChar(s[i])]

\* s[a:b] of Python with 0 <= a, b <= len(s), as 0-based offsets.
Slice(s, a, b) == SubSeq(s, a + 1, b)

\* str.strip(): leading and trailing whitespace removed.
Strip(s) ==
    LET keep == {i \in 1..Len(s) : s[i] \notin Whitespace}
    IN  IF keep = {} THEN <<>> ELSE SubSeq(s, Min(keep), Max(keep))

\* str.split('\n'): never an empty list.
RECURSIVE SplitLines(_)
SplitLines(s) ==
    LET nl == {i \in 1..Len(s) : s[i] = "\n"}
    IN  IF nl = {} THEN <<s>>
        ELSE <<SubSeq(s, 1, Min(nl) - 1)>> \o SplitLines(SubSeq(s, Min(nl) + 1, Len(s)))

-----------------------------------------------------------------------------
(* Python values                                                           *)

NoneV == [tag |-> "None", val |-> <<>>]

Str(s) == [tag |-> "str", val |-> s]

List(l) == [tag |-> "list", val |-> l]

Dict(d) == [tag |-> "dict", val |-> d]

\* An exception that leaves the call, by its class name.
Raised(e) == [tag |-> "raise", val |-> Chars(e)]

\* Truthiness of None or a str: `if not text`.
Truthy(v) == v.tag = "str" /\ v.val # <<>>

-----------------------------------------------------------------------------
(* The re module: a backtracking matcher.  A pattern is a sequence of      *)
(* items; the matcher tries an item's choices in re's priority order and   *)
(* takes the first one after which the rest of the pattern matches.        *)
(*   lit   a literal string                                                *)
(*   rep   a character class repeated lo..hi times (hi = -1: unbounded),   *)
(*         greedy or lazy; neg = TRUE negates the class and any = TRUE is  *)
(*         "." under DOTALL                                                *)
(*   alt   ordered alternatives, each a pattern; (?:X)? is X | empty       *)
(*   eos   $ without MULTILINE                                             *)
(*   wb    \b                                                              *)
(*   open, close   the bounds of capture group 1                           *)
(* Positions are 1-based; a match is [s, e) and e = 0 means no match.      *)

Lit(s) == [k |-> "lit", s |-> Chars(s)]

Rep(cls, lo, hi) == [k |-> "rep", cls |-> cls, any |-> FALSE, neg |-> FALSE, lo |-> lo, hi |-> hi, greedy |-> TRUE]

One(cls) == Rep(cls, 1, 1)

Opt(cls) == Rep(cls, 0, 1)

LazyDotStar == [k |-> "rep", cls |-> {}, any |-> TRUE, neg |-> FALSE, lo |-> 0, hi |-> -1, greedy |-> FALSE]

Alt(bs) == [k |-> "alt", bs |-> bs]

OptGroup(p) == Alt(<<p, <<>>>>)

Eos == [k |-> "eos"]

Wb == [k |-> "wb"]

GroupOpen == [k |-> "open"]

GroupClose == [k |-> "close"]

NoMatch == [s |-> 0, e |-> 0, gs |-> 0, ge |-> 0]

InClass(c, it, ic) ==
    \/ it.any
    \/ it.neg # (c \in it.cls \/ (ic /\ (LowerChar(c) \in it.cls \/ UpperChar(c) \in it.cls)))

LitAt(s, text, pos, ic) ==
    /\ pos + Len(s) - 1 <= Len(text)
    /\ \A j \in 1..Len(s) :
          \/ text[pos + j - 1] = s[j]
          \/ ic /\ LowerChar(text[pos + j - 1]) = LowerChar(s[j])

\* The most repetitions of the item possible at pos: up to the first
\* character outside its class, the end of the text or its hi.
UpToFirst(outside, most) == IF outside = {} THEN most ELSE Min(outside) - 1

RunUpTo(it, text, pos, ic, most) ==
    IF it.any THEN most
    ELSE UpToFirst({c \in 1..most : ~InClass(text[pos + c - 1], it, ic)}, most)

AtMost(hi, left) == IF hi = -1 \/ hi > left THEN left ELSE hi

RunLen(it, text, pos, ic) == RunUpTo(it, text, pos, ic, AtMost(it.hi, Len(text) - pos + 1))

IsWord(text, i) == i >= 1 /\ i <= Len(text) /\ text[i] \in WordChars

\* Of the repetition counts tried, each with the match of the rest after it,
\* the one backtracking reaches first: the largest (greedy) or smallest (lazy)
\* count that lets the rest match.
FirstOfOk(ok, greedy) ==
    IF ok = {} THEN NoMatch
    ELSE IF greedy
         THEN (CHOOSE t \in ok : \A u \in ok : t[1] >= u[1])[2]
         ELSE (CHOOSE t \in ok : \A u \in ok : t[1] <= u[1])[2]

FirstTry(tries, greedy) == FirstOfOk({t \in tries : t[2].e # 0}, greedy)

\* A match r of what follows "(" or ")" at pos, with the bound of group 1.
GroupFrom(r, pos) == IF r.e = 0 THEN NoMatch ELSE [r EXCEPT !.gs = pos]

GroupTo(r, pos) == IF r.e = 0 THEN NoMatch ELSE [r EXCEPT !.ge = pos]

\* A match r of the whole pattern that started at pos.
StartedAt(r, pos) == IF r.e = 0 THEN NoMatch ELSE [r EXCEPT !.s = pos]

RECURSIVE MatchAt(_, _, _, _), MatchAlt(_, _, _, _, _, _)

\* The match of items at pos that re finds first, NoMatch when there is none.
MatchAt(items, text, pos, ic) ==
    IF items = <<>> THEN [s |-> pos, e |-> pos, gs |-> 0, ge |-> 0]
    ELSE
    LET it == Head(items)
        rest == Tail(items)
    IN  CASE it.k = "lit" ->
                IF LitAt(it.s, text, pos, ic)
                THEN MatchAt(rest, text, pos + Len(it.s), ic)
                ELSE NoMatch
          [] it.k = "rep" ->
                \* every count the class allows, with the match of the rest after it
                FirstTry({<<c, MatchAt(rest, text, pos + c, ic)>> :
                             c \in it.lo..RunLen(it, text, pos, ic)}, it.greedy)
          [] it.k = "alt" -> MatchAlt(it.bs, 1, rest, text, pos, ic)
          [] it.k = "eos" ->
                IF pos = Len(text) + 1 \/ (pos = Len(text) /\ text[pos] = "\n")
                THEN MatchAt(rest, text, pos, ic)
                ELSE NoMatch
          [] it.k = "wb" ->
                IF IsWord(text, pos - 1) # IsWord(text, pos)
                THEN MatchAt(rest, text, pos, ic)
                ELSE NoMatch
          [] it.k = "open" -> GroupFrom(MatchAt(rest, text, pos, ic), pos)
          [] it.k = "close" -> GroupTo(MatchAt(rest, text, pos, ic), pos)

\* The alternatives from number b on, in order: the first after which the
\* rest matches.
MatchAlt(bs, b, rest, text, pos, ic) ==
    IF b > Len(bs) THEN NoMatch
    ELSE LET r == MatchAt(bs[b] \o rest, text, pos, ic)
         IN  IF r.e # 0 THEN r ELSE MatchAlt(bs, b + 1, rest, text, pos, ic)

\* A match of the whole pattern starting exactly at pos.
MatchFrom(items, text, pos, ic) == StartedAt(MatchAt(items, text, pos, ic), pos)

\* The match at the least of the positions where the pattern matches.
Leftmost(items, text, starts, ic) ==
    IF starts = {} THEN NoMatch ELSE MatchFrom(items, text, Min(starts), ic)

\* re.search from position `from`: the leftmost match.
SearchFrom(items, text, from, ic) ==
    Leftmost(items, text, {i \in from..(Len(text) + 1) : MatchAt(items, text, i, ic).e # 0}, ic)

Search(items, text, ic) == SearchFrom(items, text, 1, ic)

\* re.finditer: the non-overlapping matches, left to right.
RECURSIVE FindIterFrom(_, _, _, _), FindIterAfter(_, _, _, _)
FindIterFrom(items, text, from, ic) ==
    FindIterAfter(items, text, SearchFrom(items, text, from, ic), ic)

\* The match m and those after it; the search goes on at m's end, one
\* further when m is empty.
FindIterAfter(items, text, m, ic) ==
    IF m.e = 0 THEN <<>>
    ELSE <<m>> \o FindIterFrom(items, text, IF m.e = m.s THEN m.e + 1 ELSE m.e, ic)

FindIter(items, text, ic) == FindIterFrom(items, text, 1, ic)

\* The matched text, match.group(0).
Group0(text, m) == SubSeq(text, m.s, m.e - 1)

\* re.findall of a pattern without capture groups: the matched strings.
Groups0(text, ms) == [i \in 1..Len(ms) |-> Group0(text, ms[i])]

FindAll(items, text, ic) == Groups0(text, FindIter(items, text, ic))

-----------------------------------------------------------------------------
(* Program constants                                                       *)

\* text[:500] handed to the recognizer
NlpPrefixLen == 500

\* characters of context on each side of a degree mention
EduContext == 100

\* characters of context on each side of a year range
ExpContext == 200

\* text[:500] kept in the record
PreviewLen == 500

NotSpecified == Chars("Not specified")

Unknown == Chars("Unknown")

-----------------------------------------------------------------------------
(* Field extractors                                                        *)

\* r'\b[A-Za-z0-9._%+-]+@[A-Za-z0-9.-]+\.[A-Z|a-z]{2,}\b'
email_pattern ==
    <<Wb,
      Rep(Letters \cup Digits \cup {".", "_", "%", "+", "-"}, 1, -1),
      Lit("@"),
      Rep(Letters \cup Digits \cup {".", "-"}, 1, -1),
      Lit("."),
      Rep(Letters \cup {"|"}, 2, -1),
      Wb>>

\* `return found[0] if found else otherwise`
FirstOr(found, otherwise) == IF found # <<>> THEN Str(found[1]) ELSE otherwise

extract_email(text) == FirstOr(FindAll(email_pattern, text, FALSE), NoneV)

\* [-.\s]
PhoneSep == {"-", "."} \cup Whitespace

phone_patterns ==
    << \* r'\+?\d{1,3}[-.\s]?\(?\d{3}\)?[-.\s]?\d{3}[-.\s]?\d{4}'
       <<Opt({"+"}), Rep(Digits, 1, 3), Opt(PhoneSep), Opt({"("}), Rep(Digits, 3, 3),
         Opt({")"}), Opt(PhoneSep), Rep(Digits, 3, 3), Opt(PhoneSep), Rep(Digits, 4, 4)>>,
       \* r'\(?\d{3}\)?[-.\s]?\d{3}[-.\s]?\d{4}'
       <<Opt({"("}), Rep(Digits, 3, 3), Opt({")"}), Opt(PhoneSep), Rep(Digits, 3, 3),
         Opt(PhoneSep), Rep(Digits, 4, 4)>>,
       \* r'\d{10}'
       <<Rep(Digits, 10, 10)>> >>

\* The loop over the patterns from pattern number k on.
RECURSIVE PhoneLoop(_, _)
PhoneLoop(text, k) ==
    IF k > Len(phone_patterns) THEN NoneV
    ELSE FirstOr(FindAll(phone_patterns[k], text, FALSE), PhoneLoop(text, k + 1))

\* Variant: the area-code pattern is tried before the country-code pattern.
AreaCodeFirst(text) ==
    FirstOr(FindAll(phone_patterns[2], text, FALSE),
            FirstOr(FindAll(phone_patterns[1], text, FALSE),
                    FirstOr(FindAll(phone_patterns[3], text, FALSE), NoneV)))

extract_phone(text) == PhoneLoop(text, 1)

\* persons: the PERSON entities the recognizer tags in text[:500], in order.
\* `lines[0].strip() if lines else "Unknown"`
FirstLine(lines) == IF lines # <<>> THEN Str(Strip(lines[1])) ELSE Str(Unknown)

extract_name(hasNlp, text, persons) ==
    IF ~hasNlp
    THEN FirstLine(SplitLines(Strip(text)))
    ELSE FirstOr(persons, Str(Unknown))

\* (?:Science|Arts|Engineering|Technology|Business|Commerce)
DegreeField ==
    Alt(<< <<Lit("Science")>>, <<Lit("Arts")>>, <<Lit("Engineering")>>,
           <<Lit("Technology")>>, <<Lit("Business")>>, <<Lit("Commerce")>> >>)

\* (?:Sc|A|E|Tech|Com|B\.?A)
DegreeAbbrev ==
    Alt(<< <<Lit("Sc")>>, <<Lit("A")>>, <<Lit("E")>>, <<Lit("Tech")>>, <<Lit("Com")>>,
           <<Lit("B"), Opt({"."}), Lit("A")>> >>)

degree_patterns ==
    << \* r"Bachelor(?:'s)?\s+(?:of\s+)?(?:Science|...|Commerce)?"
       <<Lit("Bachelor"), OptGroup(<<Lit("'s")>>), Rep(Whitespace, 1, -1),
         OptGroup(<<Lit("of"), Rep(Whitespace, 1, -1)>>), OptGroup(<<DegreeField>>)>>,
       \* r"Master(?:'s)?\s+(?:of\s+)?(?:Science|...|Commerce)?"
       <<Lit("Master"), OptGroup(<<Lit("'s")>>), Rep(Whitespace, 1, -1),
         OptGroup(<<Lit("of"), Rep(Whitespace, 1, -1)>>), OptGroup(<<DegreeField>>)>>,
       \* r"B\.?(?:Sc|A|E|Tech|Com|B\.?A)\.?"
       <<Lit("B"), Opt({"."}), DegreeAbbrev, Opt({"."})>>,
       \* r"M\.?(?:Sc|A|E|Tech|Com|B\.?A)\.?"
       <<Lit("M"), Opt({"."}), DegreeAbbrev, Opt({"."})>>,
       \* r"Ph\.?D\.?"
       <<Lit("Ph"), Opt({"."}), Lit("D"), Opt({"."})>>,
       \* r"Diploma"
       <<Lit("Diploma")>>,
       \* r"Associate(?:'s)?\s+Degree"
       <<Lit("Associate"), OptGroup(<<Lit("'s")>>), Rep(Whitespace, 1, -1), Lit("Degree")>> >>

\* Variant: the window is not clipped at the end of the match's context but
\* runs to the end of the text.
ContextToEnd(text, m, n) == Slice(text, IF m.s - 1 - n > 0 THEN m.s - 1 - n ELSE 0, Len(text))

\* text[max(0, m.start() - n) : min(len(text), m.end() + n)], not yet stripped.
\* m.start() is m.s - 1 and m.end() is m.e - 1.
Context(text, m, n) ==
    LET start == IF m.s - 1 - n > 0 THEN m.s - 1 - n ELSE 0
        end == IF m.e - 1 + n < Len(text) THEN m.e - 1 + n ELSE Len(text)
    IN  Slice(text, start, end)

\* The inner loop: one stripped snippet per match, in match order.
EduSnippets(text, matches) ==
    [i \in 1..Len(matches) |-> Strip(Context(text, matches[i], EduContext))]

\* The outer loop over the patterns from pattern number k on.
RECURSIVE EduLoop(_, _)
EduLoop(text, k) ==
    IF k > Len(degree_patterns) THEN <<>>
    ELSE EduSnippets(text, FindIter(degree_patterns[k], text, TRUE)) \o EduLoop(text, k + 1)

\* Variant: the list as found, without the default.
AsFound(found) == List(found)

\* `found if found else ["Not specified"]`
OrNotSpecified(found) == IF found # <<>> THEN List(found) ELSE List(<<NotSpecified>>)

extract_education(text) == OrNotSpecified(EduLoop(text, 1))

\* The list as Python reads it: '\+' and '\.' are not escapes of a str literal,
\* so the backslashes stay in the strings.
common_skills ==
    << Chars("Python"), Chars("Java"), Chars("JavaScript"), Chars("C\\+\\+"), Chars("SQL"),
       Chars("HTML"), Chars("CSS"), Chars("React"), Chars("Angular"), Chars("Node\\.js"),
       Chars("Django"), Chars("Flask"), Chars("Machine Learning"), Chars("Data Analysis"),
       Chars("AWS"), Chars("Azure"), Chars("Docker"), Chars("Communication"),
       Chars("Leadership"), Chars("Project Management"), Chars("Teamwork"),
       Chars("Problem Solving"), Chars("Marketing"), Chars("SEO"), Chars("Social Media"),
       Chars("Accounting"), Chars("Financial Analysis"), Chars("Excel"), Chars("QuickBooks"),
       Chars("HR Management"), Chars("Recruitment"), Chars("Employee Relations") >>

\* re.compile of a vocabulary entry: a backslash makes the next character a
\* literal, an unescaped "." is any character but a newline, the rest are
\* literals (the vocabulary holds no other metacharacter).  Adjacent literals
\* make one literal string.
RECURSIVE CompileSkill(_)
CompileSkill(p) ==
    IF p = <<>> THEN <<>>
    ELSE LET escaped == p[1] = "\\" /\ Len(p) >= 2
             c == IF escaped THEN p[2] ELSE p[1]
             rest == CompileSkill(SubSeq(p, IF escaped THEN 3 ELSE 2, Len(p)))
         IN  IF ~escaped /\ c = "."
             THEN <<[k |-> "rep", cls |-> {"\n"}, any |-> FALSE, neg |-> TRUE, lo |-> 1,
                     hi |-> 1, greedy |-> TRUE]>> \o rest
             ELSE IF rest # <<>> /\ rest[1].k = "lit"
             THEN <<[k |-> "lit", s |-> <<c>> \o rest[1].s]>> \o Tail(rest)
             ELSE <<[k |-> "lit", s |-> <<c>>]>> \o rest

\* re.search(skill.lower(), text_lower)
SkillFound(skill, text_lower) == Search(CompileSkill(Lower(skill)), text_lower, FALSE).e # 0

FoundSkills(text_lower) ==
    SelectSeq(common_skills, LAMBDA skill : SkillFound(skill, text_lower))

extract_skills(text) == OrNotSpecified(FoundSkills(Lower(text)))

\* r'(?:experience|employment|work history)(.*?)(?:education|skills|certifications|$)'
exp_section_pattern ==
    <<Alt(<< <<Lit("experience")>>, <<Lit("employment")>>, <<Lit("work history")>> >>),
      GroupOpen, LazyDotStar, GroupClose,
      Alt(<< <<Lit("education")>>, <<Lit("skills")>>, <<Lit("certifications")>>, <<Eos>> >>)>>

\* r'(\d{4})\s*[-..]\s*(\d{4}|Present|Current)'; the class holds, after the
\* hyphen, the three characters U+00E2 U+20AC U+201C.
year_pattern ==
    <<Rep(Digits, 4, 4), Rep(Whitespace, 0, -1), One({"-", ACirc, Euro, LeftDQuote}),
      Rep(Whitespace, 0, -1),
      Alt(<< <<Rep(Digits, 4, 4)>>, <<Lit("Present")>>, <<Lit("Current")>> >>)>>

\* The loop over the year ranges of the section body.
YearSnippets(exp_text, year_patterns) ==
    [i \in 1..Len(year_patterns) |-> Strip(Context(exp_text, year_patterns[i], ExpContext))]

ExpSnippets(exp_text) == YearSnippets(exp_text, FindIter(year_pattern, exp_text, TRUE))

\* exp_section.group(1) searched for year ranges, when the section is found.
SectionSnippets(text, exp_section) ==
    IF exp_section.e # 0
    THEN ExpSnippets(SubSeq(text, exp_section.gs, exp_section.ge - 1))
    ELSE <<>>

extract_experience(text) ==
    OrNotSpecified(SectionSnippets(text, Search(exp_section_pattern, text, TRUE)))

-----------------------------------------------------------------------------
(* Paths: os.path.basename and pathlib.Path.suffix on POSIX                *)

LastIndexOf(s, c) ==
    LET at == {i \in 1..Len(s) : s[i] = c}
    IN  IF at = {} THEN 0 ELSE Max(at)

\* os.path.basename: what follows the last "/".
Basename(path) == SubSeq(path, LastIndexOf(path, "/") + 1, Len(path))

\* Path(path).name: the last component, trailing slashes dropped.
RECURSIVE PathName(_)
PathName(path) ==
    IF path # <<>> /\ path[Len(path)] = "/"
    THEN PathName(SubSeq(path, 1, Len(path) - 1))
    ELSE Basename(path)

\* Path(path).suffix: from the last "." of the name on, unless that "." is
\* the name's first or last character.
Suffix(path) ==
    LET name == PathName(path)
        i == LastIndexOf(name, ".")
    IN  IF 1 < i /\ i < Len(name) THEN SubSeq(name, i, Len(name)) ELSE <<>>

-----------------------------------------------------------------------------
(* Decoding the bytes of a text file                                       *)

Backtick == "U+0060"

\* The characters of codes 32 to 126.
Ascii ==
    Chars(" !\"#$%&'()*+,-./0123456789:;<=>?@ABCDEFGHIJKLMNOPQRSTUVWXYZ[\\]^_")
    \o <<Backtick>> \o Chars("abcdefghijklmnopqrstuvwxyz{|}~")

HexDigits == Chars("0123456789ABCDEF")

Hex4(n) ==
    HexDigits[((n \div 4096) % 16) + 1] \o HexDigits[((n \div 256) % 16) + 1]
    \o HexDigits[((n \div 16) % 16) + 1] \o HexDigits[(n % 16) + 1]

\* The character of a code point.
CharOfCode(cp) ==
    IF 32 <= cp /\ cp <= 126 THEN Ascii[cp - 31]
    ELSE IF cp = 9 THEN "\t"
    ELSE IF cp = 10 THEN "\n"
    ELSE IF cp = 12 THEN "\f"
    ELSE IF cp = 13 THEN "\r"
    ELSE "U+" \o Hex4(cp)

IsCont(b) == 128 <= b /\ b <= 191

Dropped == "<dropped>"

\* The length of the well-formed UTF-8 sequence that starts at bytes[i], 0
\* when none does (code points up to U+FFFF).
Utf8SeqLen(bytes, i) ==
    LET b == bytes[i]
    IN  IF b <= 127 THEN 1
        ELSE IF 194 <= b /\ b <= 223
             THEN IF Len(bytes) >= i + 1 /\ IsCont(bytes[i + 1]) THEN 2 ELSE 0
        ELSE IF 224 <= b /\ b <= 239
             THEN IF /\ Len(bytes) >= i + 2 /\ IsCont(bytes[i + 1]) /\ IsCont(bytes[i + 2])
                     /\ (b = 224 => bytes[i + 1] >= 160)
                     /\ (b = 237 => bytes[i + 1] <= 159)
                  THEN 3 ELSE 0
        ELSE 0

Utf8CodePoint(bytes, i) ==
    LET n == Utf8SeqLen(bytes, i)
    IN  IF n = 1 THEN bytes[i]
        ELSE IF n = 2 THEN (bytes[i] - 192) * 64 + (bytes[i + 1] - 128)
        ELSE (bytes[i] - 224) * 4096 + (bytes[i + 1] - 128) * 64 + (bytes[i + 2] - 128)

\* Whether bytes.decode('utf-8') succeeds, and otherwise raises
\* UnicodeDecodeError: every byte starts a well-formed sequence or continues
\* the one that starts one or two bytes before it.
Utf8Valid(bytes) ==
    \A i \in 1..Len(bytes) :
        IF IsCont(bytes[i])
        THEN \E j \in {i - 2, i - 1} :
                j >= 1 /\ ~IsCont(bytes[j]) /\ j + Utf8SeqLen(bytes, j) > i
        ELSE Utf8SeqLen(bytes, i) # 0

\* bytes.decode('utf-8') of well-formed bytes: one character per sequence.
Utf8Decode(bytes) ==
    SelectSeq([i \in 1..Len(bytes) |->
                  IF IsCont(bytes[i]) THEN Dropped ELSE CharOfCode(Utf8CodePoint(bytes, i))],
              LAMBDA c : c # Dropped)

\* bytes.decode('latin-1'): every byte is a character.
Latin1Decode(bytes) == [i \in 1..Len(bytes) |-> CharOfCode(bytes[i])]

\* Text mode with newline=None: "\r\n" and "\r" read as "\n".
UniversalNewlines(s) ==
    SelectSeq([i \in 1..Len(s) |->
                  IF s[i] = "\r" THEN "\n"
                  ELSE IF s[i] = "\n" /\ i > 1 /\ s[i - 1] = "\r" THEN Dropped
                  ELSE s[i]],
              LAMBDA c : c # Dropped)

-----------------------------------------------------------------------------
(* Document reader.  A file is what the disk holds at a path:              *)
(*   openable    open(path) succeeds                                       *)
(*   reopenable  a second open(path) succeeds                              *)
(*   bytes       the file's bytes                                          *)
(*   pdf         what PyPDF2 makes of it: valid, and per page the text or  *)
(*               the exception extract_text() raises                       *)
(*   docx        what python-docx makes of it: valid, and the paragraphs   *)

RECURSIVE ConcatPages(_)
ConcatPages(pages) ==
    IF pages = <<>> THEN Str(<<>>)
    ELSE IF pages[1].tag # "str" THEN pages[1]
    ELSE LET rest == ConcatPages(Tail(pages))
         IN  IF rest.tag # "str" THEN rest ELSE Str(pages[1].val \o rest.val)

\* Every exception of the try block is caught and None returned.
read_pdf(file) ==
    IF ~file.openable \/ ~file.pdf.valid THEN NoneV
    ELSE LET text == ConcatPages(file.pdf.pages)
         IN  IF text.tag = "str" THEN text ELSE NoneV

RECURSIVE ConcatParagraphs(_)
ConcatParagraphs(paragraphs) ==
    IF paragraphs = <<>> THEN <<>>
    ELSE paragraphs[1] \o <<"\n">> \o ConcatParagraphs(Tail(paragraphs))

read_docx(file) ==
    IF ~file.openable \/ ~file.docx.valid THEN NoneV
    ELSE Str(ConcatParagraphs(file.docx.paragraphs))

\* The handler of UnicodeDecodeError: a second open, read as latin-1; there
\* every exception is caught.
ReadTxtLatin1(file) ==
    IF ~file.reopenable THEN NoneV
    ELSE Str(UniversalNewlines(Latin1Decode(file.bytes)))

\* The outer try catches UnicodeDecodeError alone: an OSError of open() leaves
\* the call.
read_txt(file) ==
    IF ~file.openable THEN Raised("OSError")
    ELSE IF Utf8Valid(file.bytes) THEN Str(UniversalNewlines(Utf8Decode(file.bytes)))
    ELSE ReadTxtLatin1(file)

extract_text(file) ==
    LET file_ext == Lower(Suffix(file.path))
    IN  IF file_ext = Chars(".pdf") THEN read_pdf(file)
        ELSE IF file_ext = Chars(".docx") THEN read_docx(file)
        ELSE IF file_ext = Chars(".txt") THEN read_txt(file)
        ELSE NoneV

-----------------------------------------------------------------------------
(* Resume assembler                                                        *)

\* Variant: the whole text is kept.
WholeText(text) == text

\* text[:500]
RawText(text) == SubSeq(text, 1, IF Len(text) < PreviewLen THEN Len(text) ELSE PreviewLen)

\* text[:500], what the recognizer is given.
NlpInput(text) == SubSeq(text, 1, IF Len(text) < NlpPrefixLen THEN Len(text) ELSE NlpPrefixLen)

resume_data(hasNlp, path, text, persons) ==
    [file_name |-> Str(Basename(path)),
     name |-> extract_name(hasNlp, text, persons),
     email |-> extract_email(text),
     phone |-> extract_phone(text),
     education |-> extract_education(text),
     skills |-> extract_skills(text),
     experience |-> extract_experience(text),
     raw_text |-> Str(RawText(text))]

\* persons: what the recognizer tags in text[:500], when it is called.
parse_resume(hasNlp, file, persons) ==
    LET text == extract_text(file)
    IN  IF text.tag = "raise" THEN text
        ELSE IF ~Truthy(text) THEN NoneV
        ELSE Dict(resume_data(hasNlp, file.path, text.val, persons))

-----------------------------------------------------------------------------
(* Bounds of the inputs                                                    *)

\* tokens concatenated into one input text
MaxTokens == 2

\* entries between the heading and the end of an experience section
MaxBodyItems == 2

\* pages of a PDF
MaxPages == 2

\* paragraphs of a DOCX
MaxParagraphs == 2

\* lines of the text in which the recognizer may tag a person
MaxEnts == 2

\* how far the padded inputs go past a context window or the preview
PadSlack == 1

-----------------------------------------------------------------------------
(* Inputs                                                                  *)

\* The concatenations of at most n of the strings of T.
RECURSIVE Concats(_, _)
Concats(T, n) ==
    IF n = 0 THEN {<<>>}
    ELSE LET prev == Concats(T, n - 1)
         IN  prev \cup {t \o q : t \in T, q \in prev}

\* The sequences of at most n elements of S.
RECURSIVE SeqsUpTo(_, _)
SeqsUpTo(S, n) ==
    IF n = 0 THEN {<<>>}
    ELSE LET prev == SeqsUpTo(S, n - 1)
         IN  prev \cup {<<x>> \o q : x \in S, q \in prev}

Pad(n, c) == [i \in 1..n |-> c]

\* Lengths just below, at and above n.
Around(n) == {n - 1 + k : k \in 0..(PadSlack + 1)}

PhoneTexts ==
    Concats({Chars("+1 (555) 123-4567"), Chars("555-123-4567"), Chars("5551234567"),
             Chars("12"), Chars(" "), Chars("Tel: ")}, MaxTokens)

EmailTexts ==
    Concats({Chars("john@x.io"), Chars("a.b@c-d.org"), Chars("me@host"), Chars("@"),
             Chars(" "), Chars("x")}, MaxTokens)

NameTexts ==
    Concats({Chars("John Doe"), Chars("Resume"), Chars("\n"), Chars("  "), Chars("\t")},
            MaxTokens + 1)
    \cup {Pad(n, "=") \o Chars("\nJohn Doe") : n \in Around(NlpPrefixLen - 1)}

EduCore ==
    {Chars("Bachelor of Science"), Chars("B.Sc"), Chars("Master's   of Arts"),
     Chars("Ph.D."), Chars("Diploma"), Chars("Associate's Degree"), Chars(" in "),
     Chars("\n"), Chars("Not specified")}

\* A degree mention with a ruler or blank space of about the context's
\* length on either side.
EduPadded ==
    {Pad(a, c) \o t \o Pad(b, d) :
        a \in {0} \cup Around(EduContext), b \in {0} \cup Around(EduContext),
        c \in {"=", " "}, d \in {"=", " "},
        t \in {Chars("Diploma"), Chars("MBA")}}

EduTexts == Concats(EduCore, MaxTokens) \cup EduPadded

SkillTexts ==
    Concats({Chars("Python"), Chars("Leadership"), Chars("C++"), Chars("node.js"),
             Chars("JAVASCRIPT"), Chars("I know "), Chars("sql, "), Chars("C\\+\\+")},
            MaxTokens)
    \cup {Chars("I know Python and have strong Leadership skills")}

ExpBodyItems ==
    {Chars("Acme 2019 - 2021\n"), Chars("Initech 2019 ") \o <<EnDash>> \o Chars(" Present\n"),
     Chars("2015-current"), Chars("Intern, no dates\n")}

ExpTexts ==
    {around[1] \o head \o body \o term \o around[2] :
        around \in {<<<<>>, <<>>>>, <<Chars("2010-2012 "), Chars("2001-2005")>>},
        head \in {<<>>, Chars("Experience\n"), Chars("Work History: ")},
        body \in Concats(ExpBodyItems, MaxBodyItems),
        term \in {<<>>, Chars("\nEducation\n")}}

\* A year range with about the context's length of ruler on either side.
ExpPadded ==
    {Chars("Employment") \o Pad(a, c) \o Chars("2019-2021") \o Pad(b, c) \o Chars("SKILLS") :
        a \in {0} \cup Around(ExpContext), b \in {0} \cup Around(ExpContext), c \in {"=", " "}}

ExperienceTexts == ExpTexts \cup ExpPadded

\* What the recognizer may tag as persons in the text it is given: nothing,
\* or some of the first lines, in either order.
PersonOutcomes(prefix) ==
    LET lines == SplitLines(prefix)
        n == IF Len(lines) < MaxEnts THEN Len(lines) ELSE MaxEnts
        cand == {Strip(lines[i]) : i \in 1..n} \ {<<>>}
    IN  {<<>>} \cup {<<x>> : x \in cand} \cup {<<q[1], q[2]>> : q \in {z \in cand \X cand : z[1] # z[2]}}

SampleResume ==
    Chars("John Doe\njohn@x.io\n+1 (555) 123-4567\nExperience\nAcme 2019 - 2021\n")
    \o Chars("Education\nB.Sc Physics\nSkills: Python, SQL\n")

DocTexts ==
    {SampleResume, <<>>, Chars("\n"), Chars("Jane Roe\nno fields here"), Chars("Hi\r\nB.A.\r")}

\* Documents of about the preview's length.
LongTexts == {SampleResume \o Pad(n - Len(SampleResume), "=") : n \in Around(PreviewLen)}

\* The code of an ASCII character.
CodeOfChar(c) ==
    IF c = "\n" THEN 10
    ELSE IF c = "\r" THEN 13
    ELSE IF c = "\t" THEN 9
    ELSE 31 + CHOOSE i \in 1..Len(Ascii) : Ascii[i] = c

AsciiEncode(text) == [i \in 1..Len(text) |-> CodeOfChar(text[i])]

\* Files' bytes: ASCII texts, "Jos" and e-acute in UTF-8 and in Latin-1, an
\* en dash in UTF-8, a truncated sequence.
ByteContents ==
    {AsciiEncode(t) : t \in DocTexts}
    \cup {<<74, 111, 115, 195, 169>>, <<74, 111, 115, 233>>, <<226, 128>>,
          AsciiEncode(Chars("Experience 2019 ")) \o <<226, 128, 147>> \o AsciiEncode(Chars(" 2021"))}

NoPdf == [valid |-> FALSE, pages |-> <<>>]

NoDocx == [valid |-> FALSE, paragraphs |-> <<>>]

File(path, openable, reopenable, bytes, pdf, docx) ==
    [path |-> Chars(path), openable |-> openable, reopenable |-> reopenable,
     bytes |-> bytes, pdf |-> pdf, docx |-> docx]

\* A file may be gone, or go between two opens; it never comes back.
TxtFiles ==
    {File(p, o, r, b, NoPdf, NoDocx) :
        p \in {"cv.txt", "in/CV.TXT"},
        o \in BOOLEAN, r \in BOOLEAN, b \in ByteContents}
    \ {File(p, FALSE, TRUE, b, NoPdf, NoDocx) : p \in {"cv.txt", "in/CV.TXT"}, b \in ByteContents}

LongTxtFiles == {File("in/CV.TXT", TRUE, TRUE, AsciiEncode(t), NoPdf, NoDocx) : t \in LongTexts}

PageOutcomes ==
    {Str(SampleResume), Str(<<>>), Str(Chars("Jane Roe\n")), Raised("PdfReadError")}

PdfFiles ==
    {File(p, TRUE, TRUE, <<37, 80, 68, 70>>, [valid |-> TRUE, pages |-> pages], NoDocx) :
        p \in {"r.pdf", "a/b.PDF"}, pages \in SeqsUpTo(PageOutcomes, MaxPages)}
    \cup {File(p, o, o, <<37, 80, 68>>, NoPdf, NoDocx) : p \in {"r.pdf", "a/b.PDF"}, o \in BOOLEAN}

ParagraphTexts == {Chars("John Doe"), <<>>, Chars("Skills: Python")}

DocxFiles ==
    {File(p, TRUE, TRUE, <<80, 75, 3, 4>>, NoPdf, [valid |-> TRUE, paragraphs |-> ps]) :
        p \in {"cv.docx", "old/cv.DocX"}, ps \in SeqsUpTo(ParagraphTexts, MaxParagraphs)}
    \cup {File(p, o, o, <<80, 75>>, NoPdf, NoDocx) : p \in {"cv.docx", "old/cv.DocX"}, o \in BOOLEAN}

OtherFiles ==
    {File(p, TRUE, TRUE, AsciiEncode(SampleResume), NoPdf, NoDocx) :
        p \in {"notes.md", "cv", ".txt", "cv.txt.", "in.txt/cv.doc"}}

Files == TxtFiles \cup LongTxtFiles \cup PdfFiles \cup DocxFiles \cup OtherFiles

-----------------------------------------------------------------------------
(* The state machine.                                                      *)
(*   nlp      self.nlp is a loaded model (TRUE) or None (FALSE)            *)
(*   op       the method called last, "idle" between calls                 *)
(*   arg      its argument: a text, or the file at the path given          *)
(*   ents     the persons the recognizer tagged during the call            *)
(*   ret      what the call returned, or the exception that left it        *)

NoArg == [kind |-> "none"]

TextArg(text) == [kind |-> "text", text |-> text]

FileArg(file) == [kind |-> "file", file |-> file]

\* __init__: spacy.load succeeds, or fails and leaves self.nlp = None.
Init ==
    /\ nlp \in BOOLEAN
    /\ op = "idle"
    /\ arg = NoArg
    /\ ents = <<>>
    /\ ret = NoneV

\* A call on the idle parser, that ends with r returned or raised.
Call(name, a, r) ==
    /\ op' = name
    /\ arg' = a
    /\ ret' = r
    /\ UNCHANGED nlp

ReadPdf ==
    /\ op = "idle"
    /\ \E file \in Files :
          /\ Call("read_pdf", FileArg(file), read_pdf(file))
          /\ ents' = <<>>

ReadDocx ==
    /\ op = "idle"
    /\ \E file \in Files :
          /\ Call("read_docx", FileArg(file), read_docx(file))
          /\ ents' = <<>>

ReadTxt ==
    /\ op = "idle"
    /\ \E file \in Files :
          /\ Call("read_txt", FileArg(file), read_txt(file))
          /\ ents' = <<>>

ExtractText ==
    /\ op = "idle"
    /\ \E file \in Files :
          /\ Call("extract_text", FileArg(file), extract_text(file))
          /\ ents' = <<>>

ExtractEmail ==
    /\ op = "idle"
    /\ \E text \in EmailTexts :
          /\ Call("extract_email", TextArg(text), extract_email(text))
          /\ ents' = <<>>

ExtractPhone ==
    /\ op = "idle"
    /\ \E text \in PhoneTexts :
          /\ Call("extract_phone", TextArg(text), extract_phone(text))
          /\ ents' = <<>>

\* The recognizer runs only when self.nlp is set.
ExtractName ==
    /\ op = "idle"
    /\ \E text \in NameTexts :
          \E ps \in IF nlp THEN PersonOutcomes(NlpInput(text)) ELSE {<<>>} :
              /\ Call("extract_name", TextArg(text), extract_name(nlp, text, ps))
              /\ ents' = ps

ExtractEducation ==
    /\ op = "idle"
    /\ \E text \in EduTexts :
          /\ Call("extract_education", TextArg(text), extract_education(text))
          /\ ents' = <<>>

ExtractSkills ==
    /\ op = "idle"
    /\ \E text \in SkillTexts :
          /\ Call("extract_skills", TextArg(text), extract_skills(text))
          /\ ents' = <<>>

ExtractExperience ==
    /\ op = "idle"
    /\ \E text \in ExperienceTexts :
          /\ Call("extract_experience", TextArg(text), extract_experience(text))
          /\ ents' = <<>>

\* The recognizer runs only when the text was read, is not empty, and
\* self.nlp is set.  The record is the same for every answer of the
\* recognizer but for its name.
ParseResume ==
    /\ op = "idle"
    /\ \E file \in Files :
          \E text \in {extract_text(file)} :
              \E r \in {parse_resume(nlp, file, <<>>)} :
                  \E ps \in IF nlp /\ Truthy(text) THEN PersonOutcomes(NlpInput(text.val)) ELSE {<<>>} :
                      /\ Call("parse_resume", FileArg(file),
                              IF r.tag = "dict"
                              THEN Dict([r.val EXCEPT !.name = extract_name(nlp, text.val, ps)])
                              ELSE r)
                      /\ ents' = ps

\* The call is over; the parser keeps no state but self.nlp.
Return ==
    /\ op # "idle"
    /\ op' = "idle"
    /\ arg' = NoArg
    /\ ents' = <<>>
    /\ ret' = NoneV
    /\ UNCHANGED nlp

Next ==
    \/ ReadPdf
    \/ ReadDocx
    \/ ReadTxt
    \/ ExtractText
    \/ ExtractEmail
    \/ ExtractPhone
    \/ ExtractName
    \/ ExtractEducation
    \/ ExtractSkills
    \/ ExtractExperience
    \/ ParseResume
    \/ Return

Spec == Init /\ [][Next]_vars

-----------------------------------------------------------------------------
(* The claims                                                              *)

\* What extract_text makes of the file of a parse_resume or extract_text call.
TextRead == extract_text(arg.file)

\* C1: whatever goes wrong while a file is opened or read (it is missing or
\* unreadable, its decoder fails, its extension is unsupported), extract_text
\* and parse_resume return None, and no exception leaves either of them.
C1_FailuresReturnAbsent ==
    op \in {"extract_text", "parse_resume"} =>
        /\ ret.tag # "raise"
        /\ (~arg.file.openable => ret.tag = "None")

\* C2: when the reader returns text for the file, the empty string included,
\* parse_resume returns a record; it returns None only when reading failed.
C2_RecordWheneverTextRead ==
    op = "parse_resume" =>
        /\ (TextRead.tag = "str" => ret.tag = "dict")
        /\ (ret.tag = "None" => TextRead.tag = "None")

\* A list value of one or more entries, in which "Not specified" stands alone.
MatchesOrSentinel(v) ==
    /\ v.tag = "list"
    /\ v.val # <<>>
    /\ (\E i \in 1..Len(v.val) : v.val[i] = NotSpecified) => v.val = <<NotSpecified>>

\* C3: education, skills and experience, in every record of parse_resume and
\* for every text given to the three extractors, are non-empty lists: real
\* matches, or "Not specified" alone and never beside a match.
C3_ListsNeverEmpty ==
    /\ op \in {"extract_education", "extract_skills", "extract_experience"} =>
          MatchesOrSentinel(ret)
    /\ op = "parse_resume" /\ ret.tag = "dict" =>
          /\ MatchesOrSentinel(ret.val.education)
          /\ MatchesOrSentinel(ret.val.skills)
          /\ MatchesOrSentinel(ret.val.experience)

\* A record with real education matches and the sentinel for its skills.
C3_Witness ==
    /\ op = "parse_resume"
    /\ ret.tag = "dict"
    /\ ret.val.education.val # <<NotSpecified>>
    /\ ret.val.skills.val = <<NotSpecified>>

\* The lines of the text that hold more than whitespace.
NonEmptyLines(text) == SelectSeq(SplitLines(text), LAMBDA line : Strip(line) # <<>>)

\* C4: without a recognizer, and with a recognizer that tags no person in the
\* first 500 characters, extract_name returns the first non-empty line of the
\* text; "Unknown" only when the text has no non-empty line.
C4_FallsBackToFirstLine ==
    op = "extract_name" /\ ents = <<>> =>
        /\ ret.tag = "str"
        /\ IF NonEmptyLines(arg.text) # <<>>
           THEN Strip(ret.val) = Strip(NonEmptyLines(arg.text)[1])
           ELSE ret.val = Unknown

\* The phone patterns, by number, that match somewhere in the text.
TiersMatching(text) ==
    {k \in 1..Len(phone_patterns) : Search(phone_patterns[k], text, FALSE).e # 0}

\* C5: extract_phone returns the leftmost match of the first of its three
\* patterns, in their order, that matches anywhere in the text, wherever the
\* later patterns match; None only when none matches; the whole of
\* "+1 (555) 123-4567" for that text.
C5_FirstTierWins ==
    op = "extract_phone" =>
        /\ (ret.tag = "None" <=> TiersMatching(arg.text) = {})
        /\ TiersMatching(arg.text) # {} =>
              /\ ret.tag = "str"
              /\ ret.val = Group0(arg.text,
                                  Search(phone_patterns[Min(TiersMatching(arg.text))],
                                         arg.text, FALSE))
        /\ arg.text = Chars("+1 (555) 123-4567") => ret.val = Chars("+1 (555) 123-4567")

\* The country-code pattern's match is returned although the area-code
\* pattern matches earlier in the text.
C5_Witness ==
    /\ op = "extract_phone"
    /\ ret.tag = "str"
    /\ Search(phone_patterns[1], arg.text, FALSE).e # 0
    /\ Search(phone_patterns[2], arg.text, FALSE).e # 0
    /\ Search(phone_patterns[2], arg.text, FALSE).s < Search(phone_patterns[1], arg.text, FALSE).s
    /\ ret.val = Group0(arg.text, Search(phone_patterns[1], arg.text, FALSE))

\* term occurs in text.
IsSubstring(term, text) ==
    \E i \in 1..(Len(text) - Len(term) + 1) : SubSeq(text, i, i + Len(term) - 1) = term

\* The vocabulary's terms that occur in the text whatever the letter case, in
\* the vocabulary's order.
TermsOccurring(text) ==
    SelectSeq(common_skills, LAMBDA term : IsSubstring(Lower(term), Lower(text)))

\* C6: the result of extract_skills, when not the sentinel, is the vocabulary's
\* terms that occur case-insensitively as substrings of the text, once each
\* and in the vocabulary's order; [Python, Leadership] for the sentence
\* "I know Python and have strong Leadership skills".
C6_TermsOccurringInText ==
    op = "extract_skills" =>
        /\ ret.val = IF TermsOccurring(arg.text) # <<>>
                     THEN TermsOccurring(arg.text)
                     ELSE <<NotSpecified>>
        /\ arg.text = Chars("I know Python and have strong Leadership skills") =>
              ret.val = <<Chars("Python"), Chars("Leadership")>>

EmDash == "U+2014"

\* A year range as the specification words it: four digits, a dash-like
\* separator (hyphen-minus, en dash, em dash), and four digits, Present or
\* Current.
dash_year_pattern ==
    <<Rep(Digits, 4, 4), Rep(Whitespace, 0, -1), One({"-", EnDash, EmDash}),
      Rep(Whitespace, 0, -1),
      Alt(<< <<Rep(Digits, 4, 4)>>, <<Lit("Present")>>, <<Lit("Current")>> >>)>>

\* The experience section's body: from the first heading to the next closing
\* heading or the end of the text; empty when there is no heading.
SectionBody(text) ==
    IF Search(exp_section_pattern, text, TRUE).e # 0
    THEN SubSeq(text, Search(exp_section_pattern, text, TRUE).gs,
                Search(exp_section_pattern, text, TRUE).ge - 1)
    ELSE <<>>

\* The text from n characters before the match to n after it, clipped to the
\* text and stripped.
Window(text, m, n) ==
    Strip(SubSeq(text, Max({1, m.s - n}), Min({Len(text), m.e - 1 + n})))

\* The snippets of all the dash-like year ranges of the body, in order.
RangeSnippets(body, ranges) == [i \in 1..Len(ranges) |-> Window(body, ranges[i], ExpContext)]

\* C7: extract_experience returns one snippet per year range of the section's
\* body, in order, each up to 200 characters either side of the range clipped
\* to the body; ranges outside the body give none, and the result is the
\* sentinel when there is no heading or no year range in the body.
C7_SnippetsOfSectionBody ==
    op = "extract_experience" =>
        ret.val = IF FindIter(dash_year_pattern, SectionBody(arg.text), TRUE) # <<>>
                  THEN RangeSnippets(SectionBody(arg.text),
                                     FindIter(dash_year_pattern, SectionBody(arg.text), TRUE))
                  ELSE <<NotSpecified>>

\* The fields of a record, with the preview under the name given.
RecordFields(preview) ==
    {"file_name", "name", "email", "phone", "education", "skills", "experience", preview}

\* The record's file name is the path's last component; its preview, the
\* value v, is the first 500 characters of the text, or all of a shorter text.
NameAndPreview(v) ==
    /\ \E i \in 0..Len(arg.file.path) :
          /\ i = 0 \/ arg.file.path[i] = "/"
          /\ \A j \in (i + 1)..Len(arg.file.path) : arg.file.path[j] # "/"
          /\ ret.val.file_name = Str(SubSeq(arg.file.path, i + 1, Len(arg.file.path)))
    /\ v.tag = "str"
    /\ Len(v.val) = Min({PreviewLen, Len(TextRead.val)})
    /\ \A i \in 1..Len(v.val) : v.val[i] = TextRead.val[i]

\* C8 as written: every record has exactly the fields file_name, name, email,
\* phone, education, skills, experience and raw_text_preview; file_name is the
\* path's basename and raw_text_preview the first 500 characters of the text.
C8_AsWritten ==
    op = "parse_resume" /\ ret.tag = "dict" =>
        /\ DOMAIN ret.val = RecordFields("raw_text_preview")
        /\ NameAndPreview(ret.val.raw_text_preview)

\* C8, amended: every record has exactly the fields file_name, name, email,
\* phone, education, skills, experience and raw_text; file_name is the path's
\* basename and raw_text the first 500 characters of the text, the whole text
\* when it is shorter.
C8_RecordFields ==
    op = "parse_resume" /\ ret.tag = "dict" =>
        /\ DOMAIN ret.val = RecordFields("raw_text")
        /\ NameAndPreview(ret.val.raw_text)

\* A record of a file in a directory whose text is longer than the preview.
C8_Witness ==
    /\ op = "parse_resume"
    /\ ret.tag = "dict"
    /\ Len(TextRead.val) > PreviewLen
    /\ ret.val.file_name.val # arg.file.path

\* C9: in the experience section a year range is found whatever dash
\* separates its two parts: the hyphen-minus of "2019 - 2021" and the en dash
\* of "2019 (U+2013) Present" both give a snippet.
C9_EveryDashDetected ==
    op = "extract_experience"
    /\ Search(dash_year_pattern, SectionBody(arg.text), TRUE).e # 0
    => ret.val # <<NotSpecified>>

\* The matches of the degree patterns before pattern k, counted.
RECURSIVE MatchesBefore(_, _)
MatchesBefore(text, k) ==
    IF k = 1 THEN 0
    ELSE MatchesBefore(text, k - 1) + Len(FindIter(degree_patterns[k - 1], text, TRUE))

\* One snippet for each match of each pattern, in the patterns' order and
\* then the matches': the 100 characters before the match to the 100 after
\* it, clipped to the text and stripped.
OneSnippetPerMatch(text, snippets) ==
    /\ Len(snippets) = MatchesBefore(text, Len(degree_patterns) + 1)
    /\ \A k \in 1..Len(degree_patterns) :
          \A j \in 1..Len(FindIter(degree_patterns[k], text, TRUE)) :
              snippets[MatchesBefore(text, k) + j] =
                  Window(text, FindIter(degree_patterns[k], text, TRUE)[j], EduContext)

\* C10 as written: the result of extract_education has one snippet per match
\* of each of the seven patterns, so its length is the sum of the patterns'
\* match counts, in pattern order and then occurrence order, each snippet
\* the match with 100 characters either side, clipped and stripped.
C10_AsWritten ==
    op = "extract_education" => OneSnippetPerMatch(arg.text, ret.val)

\* C10, amended: when some degree pattern matches, the result has one snippet
\* per match of each pattern, not deduplicated, its length the sum of the
\* patterns' match counts, in pattern order and then occurrence order, each
\* snippet the match with 100 characters either side, clipped to the text and
\* stripped; when none matches the result is the one-element list
\* ["Not specified"].
C10_OneSnippetPerMatch ==
    op = "extract_education" =>
        IF MatchesBefore(arg.text, Len(degree_patterns) + 1) > 0
        THEN OneSnippetPerMatch(arg.text, ret.val)
        ELSE ret.val = <<NotSpecified>>

\* A text in which two patterns match the same degree, with more than 100
\* characters on either side of it.
C10_Witness ==
    /\ op = "extract_education"
    /\ Len(ret.val) = 2
    /\ FindIter(degree_patterns[4], arg.text, TRUE) # <<>>
    /\ \E m \in Range(FindIter(degree_patterns[3], arg.text, TRUE)) :
          m.s - 1 > EduContext /\ m.e - 1 + EduContext < Len(arg.text)

====
